---- MODULE Spec2Model ----
(***************************************************************************)
(* Model of desdic/fanotify, src/main.go: main's restart loop, readEvents  *)
(* (the read loop, the per-record decoder and the handle resolution) and   *)
(* maskToHuman.  Byte strings and Go strings are sequences of byte values  *)
(* (0..255); positions in the buffer are 0-based as in the Go code.        *)
(***************************************************************************)
EXTENDS Integers, Sequences, FiniteSets, TLC

----------------------------------------------------------------------------
(* Sizes fixed by the program and by the kernel's record layout.           *)

\* buf := make([]byte, 4096)
BufSize == 4096
\* binary size of unix.FanotifyEventMetadata: 4+1+1+2+8+4+4
MetadataSize == 24
\* binary size of fanotifyEventInfoFid: 1+1+2+8
FidSize == 12
\* binary size of fileHandleInfo: 4+4
FhInfoSize == 8

(* Bounds of the model.                                                    *)
\* reads of the notification descriptor (successful or failed) in one run
MaxReads == 2
\* calls of readEvents by main in one run
MaxCalls == 2
\* bit positions from which the masks given to maskToHuman are drawn
MaxMaskBits == 9

----------------------------------------------------------------------------
(* Bytes and little-endian integers (encoding/binary, LittleEndian).       *)

RECURSIVE Pow2(_)
Pow2(k) == IF k = 0 THEN 1 ELSE 2 * Pow2(k - 1)

\* buf[from:to], 0-based and half open
Slice(b, from, to) == SubSeq(b, from + 1, to)

Zeros(k) == [i \in 1..k |-> 0]

\* binary.LittleEndian.UintNN over the bytes bs
RECURSIVE LEUint(_)
LEUint(bs) == IF bs = <<>> THEN 0 ELSE Head(bs) + 256 * LEUint(Tail(bs))

\* binary.LittleEndian int32: two's complement of the four bytes
LEInt32(bs) ==
    LEUint(SubSeq(bs, 1, 3))
        + 16777216 * (IF bs[4] >= 128 THEN bs[4] - 256 ELSE bs[4])

\* the k little-endian bytes of the unsigned value v
RECURSIVE PutLE(_, _)
PutLE(v, k) == IF k = 0 THEN <<>> ELSE <<v % 256>> \o PutLE(v \div 256, k - 1)

\* mask & bit on unsigned integers
RECURSIVE BitAnd(_, _)
BitAnd(a, b) ==
    IF a = 0 \/ b = 0 THEN 0
    ELSE (IF a % 2 = 1 /\ b % 2 = 1 THEN 1 ELSE 0)
             + 2 * BitAnd(a \div 2, b \div 2)

----------------------------------------------------------------------------
(* maskToHuman.                                                            *)

IN_ACCESS == 1
IN_MODIFY == 2
IN_ATTRIB == 4
IN_CLOSE_WRITE == 8
IN_CLOSE_NOWRITE == 16
IN_OPEN == 32
IN_MOVED_FROM == 64
IN_MOVED_TO == 128
IN_CREATE == 256
IN_DELETE == 512
IN_DELETE_SELF == 1024
IN_MOVE_SELF == 2048
IN_UNMOUNT == 8192
IN_Q_OVERFLOW == 16384
IN_IGNORED == 32768
IN_ISDIR == 1073741824

\* the tests of maskToHuman, in the order the function makes them
MaskTests ==
    << [bit |-> IN_CLOSE_WRITE,   name |-> "FAN_CLOSE_WRITE"],
       [bit |-> IN_ACCESS,        name |-> "FAN_ACCESS"],
       [bit |-> IN_ATTRIB,        name |-> "FAN_ATTRIB"],
       [bit |-> IN_CLOSE_NOWRITE, name |-> "FAN_CLOSE_NOWRITE"],
       [bit |-> IN_CREATE,        name |-> "FAN_CREATE"],
       [bit |-> IN_DELETE,        name |-> "FAN_DELETE"],
       [bit |-> IN_DELETE_SELF,   name |-> "FAN_DELETE_SELF"],
       [bit |-> IN_IGNORED,       name |-> "FAN_IGNORED"],
       [bit |-> IN_ISDIR,         name |-> "FAN_ISDIR"],
       [bit |-> IN_MODIFY,        name |-> "FAN_MODIFY"],
       [bit |-> IN_MOVE_SELF,     name |-> "fanMoveSelf"],
       [bit |-> IN_MOVED_FROM,    name |-> "fanMovedFrom"],
       [bit |-> IN_MOVED_TO,      name |-> "fanMovedTo"],
       [bit |-> IN_OPEN,          name |-> "FAN_OPEN"],
       [bit |-> IN_Q_OVERFLOW,    name |-> "FAN_Q_OVERFLOW"],
       [bit |-> IN_UNMOUNT,       name |-> "FAN_UNMOUNT"] >>

\* mutation of maskFlagsFrom: a test appends its name whatever the mask holds
RECURSIVE maskFlagsFromNoTest(_, _, _)
maskFlagsFromNoTest(mask, i, flags) ==
    IF i > Len(MaskTests) THEN flags
    ELSE maskFlagsFromNoTest(mask, i + 1,
             IF BitAnd(mask, MaskTests[i].bit) > 0 \/ i = 2
             THEN Append(flags, MaskTests[i].name) ELSE flags)

\* the slice `flags` after the tests i.. have run on it
RECURSIVE maskFlagsFrom(_, _, _)
maskFlagsFrom(mask, i, flags) ==
    IF i > Len(MaskTests) THEN flags
    ELSE maskFlagsFrom(mask, i + 1,
             IF BitAnd(mask, MaskTests[i].bit) > 0
             THEN Append(flags, MaskTests[i].name) ELSE flags)

\* the slice `flags` when maskToHuman reaches its return
maskFlags(mask) == maskFlagsFrom(mask, 1, <<>>)

\* strings.Join(elems, sep)
RECURSIVE StringsJoin(_, _)
StringsJoin(elems, sep) ==
    IF elems = <<>> THEN ""
    ELSE IF Len(elems) = 1 THEN elems[1]
    ELSE elems[1] \o sep \o StringsJoin(Tail(elems), sep)

maskToHuman(mask) == StringsJoin(maskFlags(mask), ", ")

----------------------------------------------------------------------------
(* Go strings as byte sequences: strings.TrimSuffix, unix.ByteSliceToString *)
(* and filepath.Join (with filepath.Clean).                                *)

Slash == 47
Dot == 46
\* " (deleted)"
DeletedSuffix == <<32, 40, 100, 101, 108, 101, 116, 101, 100, 41>>

HasSuffix(s, suffix) ==
    /\ Len(s) >= Len(suffix)
    /\ SubSeq(s, Len(s) - Len(suffix) + 1, Len(s)) = suffix

TrimSuffix(s, suffix) ==
    IF HasSuffix(s, suffix) THEN SubSeq(s, 1, Len(s) - Len(suffix)) ELSE s

\* mutation of ByteSliceToString: the last byte is taken for the terminator
ByteSliceDropLast(s) == IF s = <<>> THEN s ELSE SubSeq(s, 1, Len(s) - 1)

\* the bytes of s before its first NUL, all of s when it holds none
ByteSliceToString(s) ==
    LET nul == {i \in 1..Len(s) : s[i] = 0}
    IN  IF nul = {} THEN s
        ELSE SubSeq(s, 1, (CHOOSE i \in nul : \A j \in nul : i <= j) - 1)

\* the elements of path between the separators, empty ones included
RECURSIVE SplitPath(_, _, _)
SplitPath(path, i, cur) ==
    IF i > Len(path) THEN <<cur>>
    ELSE IF path[i] = Slash THEN <<cur>> \o SplitPath(path, i + 1, <<>>)
    ELSE SplitPath(path, i + 1, Append(cur, path[i]))

\* Clean's pass over the elements: drops "" and ".", resolves ".."
RECURSIVE CleanElems(_, _, _)
CleanElems(elems, out, rooted) ==
    IF elems = <<>> THEN out
    ELSE LET e == Head(elems) rest == Tail(elems)
         IN  IF e = <<>> \/ e = <<Dot>> THEN CleanElems(rest, out, rooted)
             ELSE IF e = <<Dot, Dot>>
                  THEN IF out # <<>> /\ out[Len(out)] # <<Dot, Dot>>
                       THEN CleanElems(rest, SubSeq(out, 1, Len(out) - 1), rooted)
                       ELSE IF rooted THEN CleanElems(rest, out, rooted)
                       ELSE CleanElems(rest, Append(out, e), rooted)
             ELSE CleanElems(rest, Append(out, e), rooted)

RECURSIVE JoinElems(_)
JoinElems(elems) ==
    IF elems = <<>> THEN <<>>
    ELSE IF Len(elems) = 1 THEN elems[1]
    ELSE elems[1] \o <<Slash>> \o JoinElems(Tail(elems))

\* filepath.Clean
Clean(path) ==
    LET rooted == path # <<>> /\ path[1] = Slash
        body == JoinElems(CleanElems(SplitPath(path, 1, <<>>), <<>>, rooted))
        res == (IF rooted THEN <<Slash>> ELSE <<>>) \o body
    IN  IF res = <<>> THEN <<Dot>> ELSE res

\* mutation of FilepathJoin: the elements are concatenated without a separator
FilepathJoinNoSep(dir, name) == Clean(dir \o name)

\* mutation of FilepathJoin: the joined elements are not cleaned
FilepathJoinNoClean(dir, name) == dir \o <<Slash>> \o name

\* filepath.Join(dir, name)
FilepathJoin(dir, name) ==
    IF dir # <<>> THEN Clean(dir \o <<Slash>> \o name)
    ELSE IF name # <<>> THEN Clean(name)
    ELSE <<>>

----------------------------------------------------------------------------
(* The kernel's record layout, as the structs read by binary.Read give it. *)

\* the fields of unix.FanotifyEventMetadata at position pos of b
DecodeMetadata(b, pos) ==
    [ Event_len    |-> LEUint(Slice(b, pos, pos + 4)),
      Vers         |-> b[pos + 5],
      Reserved     |-> b[pos + 6],
      Metadata_len |-> LEUint(Slice(b, pos + 6, pos + 8)),
      Mask         |-> LEUint(Slice(b, pos + 8, pos + 16)),
      Fd           |-> LEInt32(Slice(b, pos + 16, pos + 20)),
      Pid          |-> LEInt32(Slice(b, pos + 20, pos + 24)) ]

\* the fields of fanotifyEventInfoFid at position pos of b
DecodeFid(b, pos) ==
    [ InfoType |-> b[pos + 1],
      Pad      |-> b[pos + 2],
      Len      |-> LEUint(Slice(b, pos + 2, pos + 4)),
      FSID     |-> Slice(b, pos + 4, pos + 12) ]

\* the fields of fileHandleInfo at position pos of b
DecodeFileHandleInfo(b, pos) ==
    [ Bytes |-> LEUint(Slice(b, pos, pos + 4)),
      Type  |-> LEInt32(Slice(b, pos + 4, pos + 8)) ]

\* the bytes of a unix.FanotifyEventMetadata written by the kernel
EncodeMetadata(len, mask, pid) ==
    PutLE(len, 4) \o <<3, 0>> \o PutLE(MetadataSize, 2) \o PutLE(mask, 8)
        \o <<255, 255, 255, 255>> \o PutLE(pid, 4)

\* the bytes of a fanotifyEventInfoFid (info type DFID_NAME) of length len
EncodeFid(len) == <<2, 0>> \o PutLE(len, 2) \o <<7, 0, 0, 0, 9, 0, 0, 0>>

\* the bytes of a fileHandleInfo announcing hbytes handle bytes
EncodeFileHandleInfo(hbytes) == PutLE(hbytes, 4) \o PutLE(1, 4)

----------------------------------------------------------------------------
(* The watched filesystem: what the kernel answers to OpenByHandleAt and   *)
(* to Readlink of /proc/self/fd/<fd>, by the object a handle refers to.    *)
(* The first handle byte names the object.                                 *)

HLive == 1
HUnlinked == 2
HStale == 3
HDenied == 4
HNoLink == 5
HandleBytes == 8

\* "/t/s"
DirLive == <<47, 116, 47, 115>>
\* "/t/d (deleted)"
DirUnlinked == <<47, 116, 47, 100>> \o DeletedSuffix

HandleObject(fileHandle) == IF fileHandle = <<>> THEN 0 ELSE fileHandle[1]

\* the errno of unix.OpenByHandleAt(mount_fd, fh, O_RDONLY), "" on success
OpenByHandleAt(fileHandle) ==
    LET o == HandleObject(fileHandle)
    IN  IF Len(fileHandle) = HandleBytes /\ o \in {HLive, HUnlinked, HNoLink} THEN ""
        ELSE IF Len(fileHandle) = HandleBytes /\ o = HStale THEN "ESTALE"
        ELSE IF Len(fileHandle) = HandleBytes /\ o = HDenied THEN "EACCES"
        ELSE "EINVAL"

\* os.Readlink("/proc/self/fd/<fd>") for the descriptor opened from fileHandle
Readlink(fileHandle) ==
    LET o == HandleObject(fileHandle)
    IN  IF o = HLive THEN [err |-> "", dir |-> DirLive]
        ELSE IF o = HUnlinked THEN [err |-> "", dir |-> DirUnlinked]
        ELSE [err |-> "ENOENT", dir |-> <<>>]

----------------------------------------------------------------------------
(* The buffers the notification descriptor delivers.  A record is given by *)
(* the object its handle names, its name and its mask; `len` is the length *)
(* its header declares and `pad` the NUL bytes that follow the name.       *)

Rec(obj, name, mask) == [obj |-> obj, name |-> name, mask |-> mask]

\* the length of a record's sub-records and NUL-terminated name
NeededLen(r) == MetadataSize + FidSize + FhInfoSize + HandleBytes + Len(r.name) + 1

\* the bytes of record r, declaring length len, its name followed by pad NULs
EncodeRecord(r, len, pad) ==
    EncodeMetadata(len, r.mask, 77)
        \o EncodeFid(len - MetadataSize)
        \o EncodeFileHandleInfo(HandleBytes)
        \o <<r.obj>> \o Zeros(HandleBytes - 1)
        \o r.name \o Zeros(pad)

\* the bytes of a record with the Len field of its fid set to fidLen
WithFidLen(bytes, fidLen) ==
    Slice(bytes, 0, MetadataSize + 2) \o PutLE(fidLen, 2)
        \o Slice(bytes, MetadataSize + 4, Len(bytes))

\* a well-formed record: it declares exactly the bytes it holds
WellFormed(r) == EncodeRecord(r, NeededLen(r), 1)

RECURSIVE WellFormedAll(_)
WellFormedAll(rs) ==
    IF rs = <<>> THEN <<>> ELSE WellFormed(Head(rs)) \o WellFormedAll(Tail(rs))

NameA == <<97>>
NameB == <<98, 99>>
RecA == Rec(HLive, NameA, IN_CREATE)
RecB == Rec(HUnlinked, NameB, IN_DELETE + IN_ISDIR)
RecEmpty == Rec(HLive, <<>>, IN_DELETE_SELF)
RecStale == Rec(HStale, NameA, IN_DELETE)
RecDenied == Rec(HDenied, NameA, IN_MODIFY)
RecNoLink == Rec(HNoLink, NameB, IN_CLOSE_WRITE)

\* buffers of well-formed records only
WellFormedInputs ==
    { <<RecA>>, <<RecA, RecB>>, <<RecB, RecEmpty, RecA>>,
      <<RecStale, RecA>>, <<RecDenied, RecB>>, <<RecNoLink, RecA>>,
      <<RecA, RecStale, RecB>> }

\* a record of declared length len whose name is padded up to that length,
\* followed by the first `rest` bytes of a second record
NearEnd(len, rest) ==
    EncodeRecord(RecA, len, len - NeededLen(RecA) + 1)
        \o Slice(WellFormed(RecB), 0, rest)

\* the bytes a read can deliver: `recs` are the records of a well-formed
\* buffer (<<>> otherwise); `short` is the declared length of a first record
\* that declares less than its sub-records and name need (0 when there is
\* none) and `after` the well-formed records laid out from position `short`
Payload(bytes, recs, short, after) ==
    [bytes |-> bytes, recs |-> recs, short |-> short, after |-> after]

\* what the model keeps of a delivered payload
Described(p) == [recs |-> p.recs, short |-> p.short, after |-> p.after]

Payloads ==
    { Payload(WellFormedAll(rs), rs, 0, <<>>) : rs \in WellFormedInputs }
    \cup
    { \* the header declares 44 bytes, the handle and the name are cut off
      \* and a well-formed record starts at 44
      Payload(Slice(EncodeRecord(RecB, 44, 1), 0, 44) \o WellFormed(RecA),
              <<>>, 44, <<RecA>>),
      \* the header declares 44 bytes and the handle and the name follow
      Payload(EncodeRecord(RecB, 44, 1) \o WellFormed(RecA), <<>>, 44, <<>>),
      \* the header declares two bytes less than the name needs
      Payload(EncodeRecord(RecB, NeededLen(RecB) - 2, 1) \o WellFormed(RecA),
              <<>>, NeededLen(RecB) - 2, <<>>),
      \* a record whose name is padded with NULs to a multiple of 4 bytes
      Payload(EncodeRecord(RecA, NeededLen(RecA) + 2, 3), <<RecA>>, 0, <<>>),
      \* a record whose fid declares 200 bytes, more than the record holds
      Payload(WithFidLen(WellFormed(RecA), 200) \o WellFormed(RecB),
              <<>>, 0, <<>>),
      \* a read that delivers fewer bytes than a header
      Payload(Slice(WellFormed(RecA), 0, 10), <<>>, 0, <<>>),
      \* a header that declares length 0
      Payload(EncodeRecord(RecStale, 0, 1), <<>>, 0, <<>>),
      \* a header that declares more than the buffer holds
      Payload(EncodeRecord(RecStale, BufSize + 8, 1), <<>>, 0, <<>>),
      Payload(EncodeRecord(RecA, BufSize + 8, 1), <<>>, 0, <<>>),
      \* a full buffer whose last record is cut by the end of the buffer
      Payload(NearEnd(BufSize - 16, 16), <<>>, 0, <<>>),
      Payload(NearEnd(BufSize - 30, 30), <<>>, 0, <<>>),
      Payload(NearEnd(BufSize - 40, 40), <<>>, 0, <<>>),
      Payload(NearEnd(BufSize - 46, 46), <<>>, 0, <<>>) }

----------------------------------------------------------------------------
(* State.                                                                  *)

VARIABLES
    pc,         \* "main": in main's loop, outside readEvents; "reading": at
                \* unix.Read; "draining": at the test of the inner loop;
                \* "aborted": the process ended by a run-time panic
    buf,        \* the 4096 bytes of buf
    n,          \* the count the last read returned
    offset,     \* offset
    rd,         \* the position of the bytes.Reader rd
    mount_fd,   \* mount_fd of the running readEvents, -1 outside it
    openFds,    \* the descriptors open in the process
    mountFds,   \* those opened on the watched root
    handleFds,  \* those opened by OpenByHandleAt
    events,     \* the lines logged at info level: [path, flags]
    diags,      \* the messages logged at error level
    reads,      \* reads made so far
    calls,      \* calls of readEvents so far
    delivered,  \* what the last successful read delivered
    lastRead,   \* how the last read of the last call of readEvents ended:
                \* "none" before its first read, "ok" or "error"
    evBase,     \* Len(events) when the last read returned
    dgBase,     \* Len(diags) when the last read returned
    iter,       \* the last iteration of the inner loop since the last read:
                \* how it ended, offset and event.Event_len at its start,
                \* Len(events), Len(diags) and handleFds at its start, and
                \* its fid.Len, start, end, dir and filename
    usedMounts, \* the descriptors given to OpenByHandleAt as directory context
    mask,       \* the argument of the last call of maskToHuman
    human       \* the flags slice and the string of that call

vars == << pc, buf, n, offset, rd, mount_fd, openFds, mountFds, handleFds,
           events, diags, reads, calls, delivered, lastRead, evBase, dgBase,
           iter, usedMounts, mask, human >>

\* the lowest descriptor number not in use, as open(2) allocates
NewFd == CHOOSE fd \in 0..(Cardinality(openFds)) :
             fd \notin openFds /\ \A g \in 0..(fd - 1) : g \in openFds

NoPayload == Described(Payload(<<>>, <<>>, 0, <<>>))
NoIter == [kind |-> "none", offset |-> 0, len |-> 0, nEvents |-> 0,
           nDiags |-> 0, fds |-> {}, fidLen |-> 0, start |-> 0, end |-> 0,
           dir |-> <<>>, filename |-> <<>>]
NoHuman == [flags |-> <<>>, text |-> ""]

\* main has initialised and marked the notification descriptor (fd 3) and
\* is about to call readEvents for the first time
Init ==
    /\ pc = "main"
    /\ buf = Zeros(BufSize)
    /\ n = 0
    /\ offset = 0
    /\ rd = 0
    /\ mount_fd = -1
    /\ openFds = {0, 1, 2, 3}
    /\ mountFds = {}
    /\ handleFds = {}
    /\ events = <<>>
    /\ diags = <<>>
    /\ reads = 0
    /\ calls = 0
    /\ delivered = NoPayload
    /\ lastRead = "none"
    /\ evBase = 0
    /\ dgBase = 0
    /\ iter = NoIter
    /\ usedMounts = {}
    /\ mask = 0
    /\ human = NoHuman

----------------------------------------------------------------------------
(* One iteration of the inner loop, read off the state at its start.       *)

\* binary.Read of size bytes at position pos succeeds: rd reads all of buf
CanRead(pos, size) == pos + size <= BufSize

fidPos == rd + MetadataSize
fhInfoPos == fidPos + FidSize
handlePos == fhInfoPos + FhInfoSize

event == DecodeMetadata(buf, rd)
fid == DecodeFid(buf, fidPos)
fhInfo == DecodeFileHandleInfo(buf, fhInfoPos)
fileHandle == Slice(buf, handlePos, handlePos + fhInfo.Bytes)

MetadataRead == CanRead(rd, MetadataSize)
FidRead == MetadataRead /\ CanRead(fidPos, FidSize)
FhInfoRead == FidRead /\ CanRead(fhInfoPos, FhInfoSize)
FileHandleRead == FhInfoRead /\ CanRead(handlePos, fhInfo.Bytes)
Opened == FileHandleRead /\ OpenByHandleAt(fileHandle) = ""
Resolved == Opened /\ Readlink(fileHandle).err = ""

\* start and end of the file name in buf
start == handlePos + fhInfo.Bytes
end == offset + event.Event_len

\* buf[start:end] is a valid slice expression of the 4096-byte buf
SliceInBounds == start <= end /\ end <= BufSize

dir == TrimSuffix(Readlink(fileHandle).dir, DeletedSuffix)
filename == ByteSliceToString(Slice(buf, start, end))
eventPath == FilepathJoin(dir, filename)

InLoop == pc = "draining" /\ offset < n

\* mutation of NextOffset: the metadata length is taken for the record length
NextOffsetMetadataLen == offset + event.Metadata_len

\* the absolute position every path seeks to: offset + int64(event.Event_len)
NextOffset == offset + event.Event_len

\* offset, _ = rd.Seek(offset+int64(event.Event_len), io.SeekStart); a seek
\* to a position that is not negative succeeds and returns it
SeekNextRecord == offset' = NextOffset /\ rd' = NextOffset

\* mutation of IsStale: no error is taken for the stale-handle error
IsStaleNever(err) == FALSE

\* errors.Is(err, unix.ESTALE)
IsStale(err) == err = "ESTALE"

\* log.Error()...Msg(msg)
LogError(msg) == diags' = Append(diags, msg)

Human(m) == [flags |-> maskFlags(m), text |-> maskToHuman(m)]

\* the iteration that starts in this state and ends the way `kind` names
Iteration(kind) ==
    [kind |-> kind, offset |-> offset,
     len |-> IF MetadataRead THEN event.Event_len ELSE 0,
     nEvents |-> Len(events), nDiags |-> Len(diags), fds |-> handleFds,
     fidLen |-> IF FidRead THEN fid.Len ELSE 0,
     start |-> IF FileHandleRead THEN start ELSE 0,
     end |-> IF MetadataRead THEN end ELSE 0,
     dir |-> IF Resolved THEN dir ELSE <<>>,
     filename |-> IF Resolved /\ SliceInBounds THEN filename ELSE <<>>]

----------------------------------------------------------------------------
(* main and the outer loop of readEvents.                                  *)

\* main calls readEvents and the watched root opens
CallReadEvents ==
    /\ pc = "main"
    /\ calls < MaxCalls
    /\ calls' = calls + 1
    /\ mount_fd' = NewFd
    /\ openFds' = openFds \cup {NewFd}
    /\ mountFds' = mountFds \cup {NewFd}
    /\ lastRead' = "none"
    /\ pc' = "reading"
    /\ UNCHANGED << buf, n, offset, rd, handleFds, events, diags, reads,
                    delivered, evBase, dgBase, iter, usedMounts, mask, human >>

\* main calls readEvents, unix.Open fails and readEvents returns
CallReadEventsOpenFails ==
    /\ pc = "main"
    /\ calls < MaxCalls
    /\ calls' = calls + 1
    /\ LogError("unable to get mount fd")
    /\ lastRead' = "none"
    /\ UNCHANGED << pc, buf, n, offset, rd, mount_fd, openFds, mountFds,
                    handleFds, events, reads, delivered, evBase, dgBase,
                    iter, usedMounts, mask, human >>

\* unix.Read delivers the bytes of p at the front of buf; rd and offset
\* start at 0
Read ==
    /\ pc = "reading"
    /\ reads < MaxReads
    /\ \E p \in Payloads :
          /\ Len(p.bytes) <= BufSize
          /\ buf' = p.bytes \o Slice(buf, Len(p.bytes), BufSize)
          /\ n' = Len(p.bytes)
          /\ delivered' = Described(p)
    /\ reads' = reads + 1
    /\ lastRead' = "ok"
    /\ offset' = 0
    /\ rd' = 0
    /\ evBase' = Len(events)
    /\ dgBase' = Len(diags)
    /\ iter' = NoIter
    /\ pc' = "draining"
    /\ UNCHANGED << mount_fd, openFds, mountFds, handleFds, events, diags,
                    calls, usedMounts, mask, human >>

\* mutation of ReadError: the loop goes on to the next read
ReadErrorRetries ==
    /\ pc = "reading"
    /\ reads < MaxReads
    /\ reads' = reads + 1
    /\ lastRead' = "error"
    /\ n' = -1
    /\ LogError("unable to read")
    /\ evBase' = Len(events)
    /\ dgBase' = Len(diags) + 1
    /\ iter' = NoIter
    /\ UNCHANGED << pc, buf, offset, rd, mount_fd, openFds, mountFds,
                    handleFds, events, calls, delivered, usedMounts, mask,
                    human >>

\* unix.Read fails: readEvents logs and returns to main
ReadError ==
    /\ pc = "reading"
    /\ reads < MaxReads
    /\ reads' = reads + 1
    /\ lastRead' = "error"
    /\ n' = -1
    /\ LogError("unable to read")
    /\ evBase' = Len(events)
    /\ dgBase' = Len(diags) + 1
    /\ iter' = NoIter
    /\ pc' = "main"
    /\ mount_fd' = -1
    /\ UNCHANGED << buf, offset, rd, openFds, mountFds, handleFds, events,
                    calls, delivered, usedMounts, mask, human >>

\* the inner loop's condition offset < int64(n) fails
DrainDone ==
    /\ pc = "draining"
    /\ ~(offset < n)
    /\ pc' = "reading"
    /\ UNCHANGED << buf, n, offset, rd, mount_fd, openFds, mountFds,
                    handleFds, events, diags, reads, calls, delivered,
                    lastRead, evBase, dgBase, iter, usedMounts, mask, human >>

----------------------------------------------------------------------------
(* The iterations of the inner loop, one action for each way through it.   *)

\* binary.Read of the metadata fails: break
MetadataFails ==
    /\ InLoop
    /\ ~MetadataRead
    /\ iter' = Iteration("metadata")
    /\ LogError("failed to read event metadata")
    /\ rd' = BufSize
    /\ pc' = "reading"
    /\ UNCHANGED << buf, n, offset, mount_fd, openFds, mountFds, handleFds,
                    events, reads, calls, delivered, lastRead, evBase,
                    dgBase, usedMounts, mask, human >>

\* binary.Read of the fid fails
FidFails ==
    /\ InLoop
    /\ MetadataRead /\ ~FidRead
    /\ iter' = Iteration("fid")
    /\ LogError("failed to read event fid")
    /\ SeekNextRecord
    /\ UNCHANGED << pc, buf, n, mount_fd, openFds, mountFds, handleFds,
                    events, reads, calls, delivered, lastRead, evBase,
                    dgBase, usedMounts, mask, human >>

\* binary.Read of the file handle information fails
FhInfoFails ==
    /\ InLoop
    /\ FidRead /\ ~FhInfoRead
    /\ iter' = Iteration("fhinfo")
    /\ LogError("failed to read file handle info")
    /\ SeekNextRecord
    /\ UNCHANGED << pc, buf, n, mount_fd, openFds, mountFds, handleFds,
                    events, reads, calls, delivered, lastRead, evBase,
                    dgBase, usedMounts, mask, human >>

\* binary.Read of the fhInfo.Bytes handle bytes fails
FileHandleFails ==
    /\ InLoop
    /\ FhInfoRead /\ ~FileHandleRead
    /\ iter' = Iteration("handle")
    /\ LogError("failed to read file handle")
    /\ SeekNextRecord
    /\ UNCHANGED << pc, buf, n, mount_fd, openFds, mountFds, handleFds,
                    events, reads, calls, delivered, lastRead, evBase,
                    dgBase, usedMounts, mask, human >>

\* unix.OpenByHandleAt fails; only an error that is not ESTALE is logged
OpenFails ==
    /\ InLoop
    /\ FileHandleRead /\ ~Opened
    /\ iter' = Iteration(IF OpenByHandleAt(fileHandle) = "ESTALE"
                         THEN "stale" ELSE "open")
    /\ IF IsStale(OpenByHandleAt(fileHandle))
       THEN UNCHANGED diags
       ELSE LogError("failed to open file handle")
    /\ usedMounts' = usedMounts \cup {mount_fd}
    /\ SeekNextRecord
    /\ UNCHANGED << pc, buf, n, mount_fd, openFds, mountFds, handleFds,
                    events, reads, calls, delivered, lastRead, evBase,
                    dgBase, mask, human >>

\* os.Readlink fails: the iteration continues before unix.Close(fd)
ReadlinkFails ==
    /\ InLoop
    /\ Opened /\ ~Resolved
    /\ iter' = Iteration("readlink")
    /\ usedMounts' = usedMounts \cup {mount_fd}
    /\ openFds' = openFds \cup {NewFd}
    /\ handleFds' = handleFds \cup {NewFd}
    /\ LogError("failed to read symlink")
    /\ SeekNextRecord
    /\ UNCHANGED << pc, buf, n, mount_fd, mountFds, events, reads, calls,
                    delivered, lastRead, evBase, dgBase, mask, human >>

\* the handle resolves, fd is closed, buf[start:end] is in bounds: the event
\* is logged and rd.Seek(end) sets offset
EmitEvent ==
    /\ InLoop
    /\ Resolved /\ SliceInBounds
    /\ iter' = Iteration("emit")
    /\ usedMounts' = usedMounts \cup {mount_fd}
    /\ mask' = event.Mask
    /\ human' = Human(event.Mask)
    /\ events' = Append(events, [path |-> eventPath,
                                 flags |-> maskToHuman(event.Mask)])
    /\ offset' = end
    /\ rd' = end
    /\ UNCHANGED << pc, buf, n, mount_fd, openFds, mountFds, handleFds,
                    diags, reads, calls, delivered, lastRead, evBase, dgBase >>

\* the handle resolves, fd is closed, and buf[start:end] is out of range:
\* the run-time panic ends the process
SlicePanics ==
    /\ InLoop
    /\ Resolved /\ ~SliceInBounds
    /\ iter' = Iteration("panic")
    /\ usedMounts' = usedMounts \cup {mount_fd}
    /\ rd' = start
    /\ pc' = "aborted"
    /\ UNCHANGED << buf, n, offset, mount_fd, openFds, mountFds, handleFds,
                    events, diags, reads, calls, delivered, lastRead, evBase,
                    dgBase, mask, human >>

Next ==
    \/ CallReadEvents
    \/ CallReadEventsOpenFails
    \/ Read
    \/ ReadError
    \/ DrainDone
    \/ MetadataFails
    \/ FidFails
    \/ FhInfoFails
    \/ FileHandleFails
    \/ OpenFails
    \/ ReadlinkFails
    \/ EmitEvent
    \/ SlicePanics

Spec == Init /\ [][Next]_vars

----------------------------------------------------------------------------
(* maskToHuman on its own: the masks are the sums of the subsets of the    *)
(* first MaxMaskBits of these bit positions, recognised or not.            *)

MaskBitPositions == <<3, 0, 12, 8, 30, 9, 16, 1, 11, 6, 15, 5, 2, 4, 7, 10, 13, 14>>

RECURSIVE SumBits(_)
SumBits(S) == IF S = {} THEN 0
              ELSE LET b == CHOOSE x \in S : TRUE
                   IN  Pow2(b) + SumBits(S \ {b})

MaskInputs ==
    { SumBits({MaskBitPositions[i] : i \in I}) :
          I \in SUBSET (1..(IF MaxMaskBits < Len(MaskBitPositions)
                            THEN MaxMaskBits ELSE Len(MaskBitPositions))) }

\* a caller holds a mask and has not called maskToHuman yet
InitMask ==
    /\ pc = "format"
    /\ mask \in MaskInputs
    /\ human = NoHuman
    /\ buf = Zeros(BufSize)
    /\ n = 0
    /\ offset = 0
    /\ rd = 0
    /\ mount_fd = -1
    /\ openFds = {0, 1, 2, 3}
    /\ mountFds = {}
    /\ handleFds = {}
    /\ events = <<>>
    /\ diags = <<>>
    /\ reads = 0
    /\ calls = 0
    /\ delivered = NoPayload
    /\ lastRead = "none"
    /\ evBase = 0
    /\ dgBase = 0
    /\ iter = NoIter
    /\ usedMounts = {}

CallMaskToHuman ==
    /\ pc = "format"
    /\ human' = Human(mask)
    /\ pc' = "formatted"
    /\ UNCHANGED << mask, buf, n, offset, rd, mount_fd, openFds, mountFds,
                    handleFds, events, diags, reads, calls, delivered,
                    lastRead, evBase, dgBase, iter, usedMounts >>

NextMask == CallMaskToHuman

SpecMask == InitMask /\ [][NextMask]_vars

----------------------------------------------------------------------------
(* What the claims are stated with.                                        *)

\* the handle of r opens and its path is read
Resolves(r) == r.obj \in {HLive, HUnlinked}

\* the directory the handle of r resolves to, "/t/s" or "/t/d"
ResolvedDir(r) == IF r.obj = HLive THEN <<47, 116, 47, 115>>
                  ELSE <<47, 116, 47, 100>>

\* the event of a resolved record: its directory, a separator and its name
\* (the directory alone for an empty name), and the names of its mask
ExpectedEvent(r) ==
    [path |-> IF r.name = <<>> THEN ResolvedDir(r)
              ELSE ResolvedDir(r) \o <<47>> \o r.name,
     flags |-> CASE r.mask = IN_CREATE -> "FAN_CREATE"
                 [] r.mask = IN_DELETE + IN_ISDIR -> "FAN_DELETE, FAN_ISDIR"
                 [] r.mask = IN_DELETE_SELF -> "FAN_DELETE_SELF"
                 [] OTHER -> "?"]

RECURSIVE ExpectedEvents(_)
ExpectedEvents(recs) ==
    IF recs = <<>> THEN <<>>
    ELSE (IF Resolves(Head(recs)) THEN <<ExpectedEvent(Head(recs))>> ELSE <<>>)
             \o ExpectedEvents(Tail(recs))

\* the events logged since the last read returned
EmittedSinceRead == SubSeq(events, evBase + 1, Len(events))

IsPrefix(a, b) == Len(a) <= Len(b) /\ a = SubSeq(b, 1, Len(a))

\* the last read delivered well-formed records and the drain is under way
\* or over
DrainOfWellFormed == lastRead = "ok" /\ delivered.recs # <<>>

\* the last iteration failed after its header was parsed
FailedAfterHeader ==
    iter.kind \in {"fid", "fhinfo", "handle", "stale", "open", "readlink"}

----------------------------------------------------------------------------
(* The claims.                                                             *)

\* C1: draining a buffer of K well-formed records whose handles all resolve
\* logs exactly K events, one per record and in the records' order, each
\* with the path directory/name of its record: while draining the events
\* logged are a prefix of the expected ones, and all of them once the drain
\* is over; the process does not abort.
C1_WellFormedBufferEmitsAll ==
    (DrainOfWellFormed
        /\ \A i \in 1..Len(delivered.recs) : Resolves(delivered.recs[i]))
    => /\ pc # "aborted"
       /\ IsPrefix(EmittedSinceRead, ExpectedEvents(delivered.recs))
       /\ pc # "draining"
             => EmittedSinceRead = ExpectedEvents(delivered.recs)

\* C1 witness: a buffer of three resolving records has been drained
C1_Witness ==
    /\ pc = "reading"
    /\ lastRead = "ok"
    /\ delivered.recs = <<RecB, RecEmpty, RecA>>
    /\ Len(EmittedSinceRead) = 3

\* C2: a first record that declares less than its sub-records and name need
\* yields no event, the cursor then stands at its declared length, and the
\* well-formed record laid out there yields exactly its own event.
C2_ShortRecordIsSkipped ==
    (lastRead = "ok" /\ delivered.short > 0)
    => /\ pc # "aborted"
       /\ (iter.kind # "none" /\ iter.offset = 0)
             => Len(events) = iter.nEvents /\ offset = delivered.short
       /\ (pc # "draining" /\ delivered.after # <<>>)
             => EmittedSinceRead = ExpectedEvents(delivered.after)

\* C3: no descriptor opened by OpenByHandleAt is open when an iteration of
\* the inner loop starts, nor once the buffer is drained.
C3_NoHandleDescriptorOpen == handleFds = {}

\* C4: an iteration that parsed its header and then failed (fid, handle
\* information, handle bytes, open, stale or not, path read) logs no event
\* and leaves the cursor at offset + Event_len, offset being where the
\* record's header started; an iteration that logs an event leaves the
\* cursor at the same position.
C4_NextOffsetIsDeclaredEnd ==
    /\ FailedAfterHeader
          => Len(events) = iter.nEvents /\ offset = iter.offset + iter.len
    /\ iter.kind = "emit"
          => Len(events) = iter.nEvents + 1 /\ offset = iter.offset + iter.len

\* C4 witness: the path read failed for the first record of a buffer and
\* the cursor stands at the start of the second
C4_Witness ==
    /\ pc = "draining"
    /\ iter.kind = "readlink"
    /\ delivered.recs = <<RecNoLink, RecA>>
    /\ offset = NeededLen(RecNoLink)
    /\ offset < n

\* C5: a stale handle logs neither an event nor an error and moves the
\* cursor by the record's declared length; the other records of the buffer
\* are decoded as if the stale one were not there.
C5_StaleIsSilent ==
    /\ iter.kind = "stale"
          => /\ Len(events) = iter.nEvents
             /\ Len(diags) = iter.nDiags
             /\ offset = iter.offset + iter.len
    /\ (DrainOfWellFormed /\ pc # "draining"
          /\ (\E i \in 1..Len(delivered.recs) : delivered.recs[i].obj = HStale)
          /\ (\A i \in 1..Len(delivered.recs) :
                 Resolves(delivered.recs[i]) \/ delivered.recs[i].obj = HStale))
          => /\ EmittedSinceRead = ExpectedEvents(delivered.recs)
             /\ Len(diags) = dgBase

\* C5 witness: a buffer with a stale record between two resolving ones has
\* been drained
C5_Witness ==
    /\ pc = "reading"
    /\ lastRead = "ok"
    /\ delivered.recs = <<RecA, RecStale, RecB>>
    /\ Len(EmittedSinceRead) = 2
    /\ Len(diags) = dgBase

\* C6: an iteration that parsed its header ends in exactly one of: one event
\* and no error; one error and no event, for a failure that is not a stale
\* handle; neither, for a stale handle only.
C6_OneOutcomePerRecord ==
    iter.kind \notin {"none", "metadata"}
    => LET e == Len(events) - iter.nEvents
           d == Len(diags) - iter.nDiags
       IN  \/ e = 1 /\ d = 0
           \/ e = 0 /\ d = 1
                 /\ iter.kind \in {"fid", "fhinfo", "handle", "open", "readlink"}
           \/ e = 0 /\ d = 0 /\ iter.kind = "stale"

\* C7: an iteration that starts with fewer delivered bytes than a header
\* left before n logs no event and does not abort the process.
C7_PartialHeaderEmitsNothing ==
    (iter.kind # "none" /\ n - iter.offset < MetadataSize)
    => Len(events) = iter.nEvents /\ pc # "aborted"

\* C8: once a read has failed, readEvents has returned to main: nothing was
\* decoded and no event logged after that read, and no read follows until
\* main calls readEvents again.
C8_ReadErrorEndsReader ==
    lastRead = "error"
    => /\ pc = "main"
       /\ mount_fd = -1
       /\ iter = NoIter
       /\ Len(events) = evBase
       /\ Len(diags) = dgBase
       /\ diags[Len(diags)] = "unable to read"

\* C8 witness: the second read failed after a first one whose events stay
C8_Witness ==
    /\ lastRead = "error"
    /\ reads = 2
    /\ Len(events) = 2
    /\ pc = "main"

\* C9: at most one directory-context descriptor is ever open, and every
\* OpenByHandleAt is given that one.
C9_OneDirectoryContext ==
    Cardinality(mountFds) <= 1 /\ Cardinality(usedMounts) <= 1

\* C10: the names maskToHuman gives are those of the recognised bits set in
\* the mask, each once, none for a bit that is not set, in the order of the
\* function's tests.
C10_MaskNames ==
    pc = "formatted"
    => LET f == human.flags
           idx(nm) == CHOOSE t \in 1..Len(MaskTests) : MaskTests[t].name = nm
       IN  /\ \A t \in 1..Len(MaskTests) :
                  ((mask \div MaskTests[t].bit) % 2 = 1)
                      <=> (\E j \in 1..Len(f) : f[j] = MaskTests[t].name)
           /\ \A j \in 1..Len(f) : \E t \in 1..Len(MaskTests) :
                  MaskTests[t].name = f[j]
           /\ \A j, k \in 1..Len(f) : j < k => idx(f[j]) < idx(f[k])

\* C10 witness: close-write (bit 3) is named before access (bit 0), and the
\* bit 12, which maskToHuman does not test, adds nothing
C10_Witness ==
    /\ pc = "formatted"
    /\ mask = IN_CLOSE_WRITE + IN_ACCESS + 4096
    /\ human.text = "FAN_CLOSE_WRITE, FAN_ACCESS"

\* the last iteration got past the reads of its sub-records and the open
LastEmitted == iter.kind = "emit"

\* the event the last iteration logged
LastEvent == events[Len(events)]

\* C11: a resolved record whose name is empty is logged with the resolved
\* directory as its path, without a separator after it.
C11_EmptyNameGivesDirectory ==
    (LastEmitted /\ iter.filename = <<>>)
    => LastEvent.path = iter.dir

\* C11 witness: the record with the empty name of a well-formed buffer has
\* been logged with the path "/t/s"
C11_Witness ==
    /\ LastEmitted
    /\ iter.filename = <<>>
    /\ delivered.recs = <<RecB, RecEmpty, RecA>>
    /\ iter.offset = NeededLen(RecB)
    /\ LastEvent.path = <<47, 116, 47, 115>>

\* C12: a record whose fid declares more bytes than its span holds after
\* the metadata logs no event and leaves the cursor at offset + Event_len.
C12_InconsistentFidIsAbandoned ==
    (iter.kind \notin {"none", "metadata", "fid"}
        /\ iter.fidLen > iter.len - MetadataSize)
    => /\ Len(events) = iter.nEvents
       /\ pc # "aborted"
       /\ offset = iter.offset + iter.len

\* the bytes of buf[from:to] before the first NUL among them
UpToNul(from, to) ==
    LET stop == CHOOSE k \in from..to :
                    /\ k = to \/ buf[k + 1] = 0
                    /\ \A j \in from..(k - 1) : buf[j + 1] # 0
    IN  [i \in 1..(stop - from) |-> buf[from + i]]

\* where the name of the last iteration's record starts and ends, from the
\* bytes of the buffer: after the handle bytes, and at the declared length
NameStart ==
    iter.offset + MetadataSize + FidSize + FhInfoSize
        + buf[iter.offset + MetadataSize + FidSize + 1]
        + 256 * buf[iter.offset + MetadataSize + FidSize + 2]
NameEnd == iter.offset + iter.len

\* C13 as stated: the name of a logged event is all the bytes from the end
\* of the handle to offset + Event_len but the last one.
C13_NameIsSpanLessOneByte ==
    LastEmitted
    => iter.filename = [i \in 1..(NameEnd - NameStart - 1) |-> buf[NameStart + i]]

\* C13 amended: the name of a logged event is the bytes from the end of the
\* handle up to the first NUL before offset + Event_len, or up to
\* offset + Event_len when there is none; it holds no byte of the handle
\* nor of the next record.
C13_NameIsSpanUpToNul ==
    LastEmitted
    => /\ iter.start = NameStart
       /\ iter.end = NameEnd
       /\ iter.filename = UpToNul(NameStart, NameEnd)
       /\ NameStart + Len(iter.filename) <= NameEnd

\* C13 witness: a record whose name "a" is followed by three NULs has been
\* logged
C13_Witness ==
    /\ LastEmitted
    /\ iter.filename = <<97>>
    /\ NameEnd - NameStart = 4
    /\ LastEvent.path = <<47, 116, 47, 115, 47, 97>>

\* C14: an iteration after which the loop goes on has moved the cursor
\* forward.
C14_IterationAdvances ==
    (pc = "draining" /\ iter.kind # "none") => offset > iter.offset

\* C15: a logged event is decoded from positions below n only: its record
\* ends at or before n.
C15_EventWithinDelivered ==
    LastEmitted => iter.start <= n /\ iter.end <= n

\* C16: the bounds of buf[start:end] are valid whenever the name is
\* extracted, and the process is not aborted.
C16_SliceBoundsValid ==
    /\ pc # "aborted"
    /\ iter.kind \in {"emit", "panic"}
          => 0 <= iter.start /\ iter.start <= iter.end /\ iter.end <= BufSize

====
